---------------------------- MODULE Spec2Model ----------------------------
(***************************************************************************)
(* StudyMate front end: the DSA chatbot widget (DSAChatbot), the course    *)
(* generator page (CourseGenerator) and the CSE course form, with the      *)
(* gateway policies the design document adds to them.                      *)
(*                                                                         *)
(* Text is modelled as a sequence of one-character strings, so that        *)
(* toLowerCase, trim and includes are computed character by character.     *)
(***************************************************************************)
EXTENDS Integers, Sequences, FiniteSets, TLC

(***************************************************************************)
(* Bounds of the model.                                                    *)
(***************************************************************************)
\* words per query in the classification check
MaxWords == 2
\* accepted chat requests per behaviour
MaxSends == 3
\* thresholds the circuit claim is tried with
MaxThreshold == 2
\* invocations of CourseGenerator.handleSubmit per behaviour
MaxSubmits == 3
\* requests routed to the service per behaviour
MaxRequests == 5
\* failures in a row that open the circuit (configurable in the design)
Threshold == 2
\* clock ticks an open circuit stays open (configurable in the design)
CoolDown == 2
\* the milliseconds the clock of the chatbot advances in a run
MaxTicks == 2

(***************************************************************************)
(* Text helpers: String.prototype.toLowerCase / includes / trim.           *)
(***************************************************************************)
UpperChars == <<"A","B","C","D","E","F","G","H","I","J","K","L","M",
                "N","O","P","Q","R","S","T","U","V","W","X","Y","Z">>
LowerChars == <<"a","b","c","d","e","f","g","h","i","j","k","l","m",
                "n","o","p","q","r","s","t","u","v","w","x","y","z">>

toLowerChar(c) ==
    IF \E i \in 1..Len(UpperChars) : UpperChars[i] = c
    THEN LowerChars[CHOOSE i \in 1..Len(UpperChars) : UpperChars[i] = c]
    ELSE c

toLowerCase(s) == [i \in 1..Len(s) |-> toLowerChar(s[i])]

includes(s, k) ==
    \E i \in 0..(Len(s) - Len(k)) : SubSeq(s, i + 1, i + Len(k)) = k

WhiteSpace == {" ", "\t", "\n"}

RECURSIVE trimStart(_)
trimStart(s) ==
    IF s # <<>> /\ Head(s) \in WhiteSpace THEN trimStart(Tail(s)) ELSE s

RECURSIVE trimEnd(_)
trimEnd(s) ==
    IF s # <<>> /\ s[Len(s)] \in WhiteSpace
    THEN trimEnd(SubSeq(s, 1, Len(s) - 1))
    ELSE s

trim(s) == trimEnd(trimStart(s))

(***************************************************************************)
(* getFallbackResponse: the canned answers (first sentence of each) and    *)
(* the chain of keyword tests, in the order of the code.                   *)
(***************************************************************************)
ArrayText   == "Arrays are fundamental data structures! For sorting: ..."
TreeText    == "Binary Trees are crucial for DSA! Key concepts: ..."
GraphText   == "Graph algorithms are powerful! Essential ones: ..."
DynamicText == "Dynamic Programming is all about optimization! Approach: ..."
TimeText    == "Time Complexity Analysis: ..."
GenericText == "Great question! DSA is all about practice and understanding patterns. ..."

KwArray      == <<"a","r","r","a","y">>
KwSorting    == <<"s","o","r","t","i","n","g">>
KwTree       == <<"t","r","e","e">>
KwBinary     == <<"b","i","n","a","r","y">>
KwGraph      == <<"g","r","a","p","h">>
KwBfs        == <<"b","f","s">>
KwDfs        == <<"d","f","s">>
KwDynamic    == <<"d","y","n","a","m","i","c">>
KwDp         == <<"d","p">>
KwTime       == <<"t","i","m","e">>
KwComplexity == <<"c","o","m","p","l","e","x","i","t","y">>

\* a faulty variant of getFallbackResponse: the tree/binary test moved before array/sorting
getFallbackResponseTreeFirst(query) ==
    LET lowerQuery == toLowerCase(query) IN
    IF includes(lowerQuery, KwTree) \/ includes(lowerQuery, KwBinary)
      THEN TreeText
    ELSE IF includes(lowerQuery, KwArray) \/ includes(lowerQuery, KwSorting)
      THEN ArrayText
    ELSE IF includes(lowerQuery, KwGraph) \/ includes(lowerQuery, KwBfs)
            \/ includes(lowerQuery, KwDfs)
      THEN GraphText
    ELSE IF includes(lowerQuery, KwDynamic) \/ includes(lowerQuery, KwDp)
      THEN DynamicText
    ELSE IF includes(lowerQuery, KwTime) \/ includes(lowerQuery, KwComplexity)
      THEN TimeText
    ELSE GenericText

getFallbackResponse(query) ==
    LET lowerQuery == toLowerCase(query) IN
    IF includes(lowerQuery, KwArray) \/ includes(lowerQuery, KwSorting)
      THEN ArrayText
    ELSE IF includes(lowerQuery, KwTree) \/ includes(lowerQuery, KwBinary)
      THEN TreeText
    ELSE IF includes(lowerQuery, KwGraph) \/ includes(lowerQuery, KwBfs)
            \/ includes(lowerQuery, KwDfs)
      THEN GraphText
    ELSE IF includes(lowerQuery, KwDynamic) \/ includes(lowerQuery, KwDp)
      THEN DynamicText
    ELSE IF includes(lowerQuery, KwTime) \/ includes(lowerQuery, KwComplexity)
      THEN TimeText
    ELSE GenericText

(***************************************************************************)
(* The queries the classification is checked on: every concatenation of    *)
(* at most MaxWords words of Vocabulary. The vocabulary holds the eleven   *)
(* keywords in mixed case, fragments that form a keyword only across a     *)
(* word boundary ("tim" + "e", "d" + "p"), and text without keywords.      *)
(***************************************************************************)
Vocabulary ==
    { <<"A","r","r","a","y">>, <<"s","o","r","t","i","n","g">>,
      <<"T","R","E","E">>, <<"b","i","n","a","r","y">>,
      <<"g","r","a","p","h">>, <<"B","f","s">>, <<"d","f","s">>,
      <<"D","y","n","a","m","i","c">>, <<"d","p">>,
      <<"t","i","m","e">>, <<"c","o","m","p","l","e","x","i","t","y">>,
      <<"t","i","m">>, <<"e">>, <<"D">>, <<"p">>, <<" ">>,
      <<"h","e","a","p">> }

RECURSIVE QueriesOf(_)
QueriesOf(n) ==
    IF n = 0 THEN { <<>> }
    ELSE LET shorter == QueriesOf(n - 1) IN
         shorter \cup { q \o w : q \in shorter, w \in Vocabulary }

Queries == QueriesOf(MaxWords)

None == "none"

(***************************************************************************)
(* DSAChatbot: what the upstream of one fetch can do. The environment      *)
(* picks it when the call is issued:                                        *)
(*   kind "hang"     - the request is never answered                        *)
(*   kind "reject"   - fetch rejects (connection refused, network error)    *)
(*   kind "response" - fetch resolves; ok is response.ok; json says what    *)
(*                     response.json() does with the body: "invalid" (it    *)
(*                     rejects), "never" (the body never ends), "null"      *)
(*                     (it resolves to null), "object" (it resolves to an   *)
(*                     object whose response field is `response`, "" when   *)
(*                     the field is missing or empty).                      *)
(***************************************************************************)
LiveText == "Use a min-heap: push is O(log n)."

Up(kind, ok, json, response) ==
    [kind |-> kind, ok |-> ok, json |-> json, response |-> response]

NoUpstream == Up("none", FALSE, "invalid", "")

Upstreams ==
    { Up("hang", FALSE, "invalid", ""),
      Up("reject", FALSE, "invalid", ""),
      Up("response", FALSE, "invalid", ""),
      Up("response", TRUE, "invalid", ""),
      Up("response", TRUE, "never", ""),
      Up("response", TRUE, "null", ""),
      Up("response", TRUE, "object", ""),
      Up("response", TRUE, "object", LiveText) }

\* what the user can put in the input field
ChatInputs ==
    { <<>>, <<" ", " ">>, <<"B","f","s">>, <<" ","h","i"," ">> }

GreetingId == 1
GreetingText == "Hi! I'm your DSA study assistant. ..."
RephraseText == "I'm having trouble understanding that. Could you rephrase your question about DSA concepts?"

Message(id, content, isBot) == [id |-> id, content |-> content, isBot |-> isBot]

VARIABLES
    query,          \* classification check: the query under test
    fbResult,       \* classification check: what getFallbackResponse returned
    messages,       \* useState<Message[]>
    inputValue,     \* useState('')
    isLoading,      \* useState(false)
    pc,             \* where handleSendMessage is: "idle", "awaitFetch", "awaitJson"
    sentText,       \* inputValue as the running handleSendMessage closed over it
    upstream,       \* what the upstream of the outstanding fetch does
    toasts,         \* the toasts raised, each with the request it was raised for
    consoleErrors,  \* number of console.error calls
    netAttempts,    \* number of fetch calls issued
    reqLog,         \* per accepted request: its text, its upstream, the path that answered it
    now,            \* Date.now()
    user,                    \* useAuth().user: NoUser or the id of the signed-in user
    courseIsLoading,         \* CourseGenerator: useState(false)
    error,                   \* CourseGenerator: useState<string | null>(null)
    generationInBackground,  \* CourseGenerator: useState(false)
    generationStartTime,     \* CourseGenerator: useState<Date | null>(null)
    navigations,             \* the routes navigate() was called with, in order
    courseToasts,            \* the toasts CourseGenerator raised, each with its submit
    courseErrors,            \* number of console.error calls of CourseGenerator
    submits,                 \* number of handleSubmit invocations so far
    calls,                   \* the courseService.generateCourse calls, in order
    circuitState,            \* Circuit Policy: "CLOSED", "OPEN" or "HALF_OPEN"
    consecutiveFailures,     \* HealthState.consecutiveFailures
    coolDownLeft,            \* ticks left of the cool-down of an open circuit
    inFlight,                \* the upstream calls outstanding: [req, probe]
    transportCalls,          \* the stub transport's call counter
    envelopes,               \* the ResponseEnvelopes returned, in order
    routed,                  \* number of requests routed so far
    defaultKey,              \* configuration: the default API key
    overrideKey,             \* configuration: the service-specific key of each service
    resolved,                \* the last credentialFor call: [service, result]
    selectedSubject,         \* CSECourseForm: useState<string>("")
    customTopic,             \* CSECourseForm: useState<string>("")
    purpose,                 \* CSECourseForm: useState("exam_preparation")
    difficulty,              \* CSECourseForm: useState("intermediate")
    customPrompt,            \* CSECourseForm: useState<string>("")
    includeExamPrep,         \* CSECourseForm: useState<boolean>(true)
    showNonCSEWarning,       \* CSECourseForm: useState<boolean>(false)
    formSubmits,             \* number of CSECourseForm.handleSubmit invocations so far
    onSubmitCalls,           \* number of calls of the onSubmit prop so far
    onSubmitLast             \* the arguments of the last onSubmit call, if any

fbVars == <<query, fbResult>>

courseVars == <<user, courseIsLoading, error, generationInBackground,
                generationStartTime, navigations, courseToasts, courseErrors,
                submits, calls>>

chatVars == <<messages, inputValue, isLoading, pc, sentText, upstream, toasts,
              consoleErrors, netAttempts, reqLog, now>>

circuitVars == <<circuitState, consecutiveFailures, coolDownLeft, inFlight,
                 transportCalls, envelopes, routed>>

credVars == <<defaultKey, overrideKey, resolved>>

formVars == <<selectedSubject, customTopic, purpose, difficulty, customPrompt,
              includeExamPrep, showNonCSEWarning, formSubmits, onSubmitCalls,
              onSubmitLast>>

vars == <<fbVars, chatVars, courseVars, circuitVars, credVars, formVars>>

\* what the actions of one component leave alone
notFallback == <<chatVars, courseVars, circuitVars, credVars, formVars>>
notChat     == <<fbVars, courseVars, circuitVars, credVars, formVars>>
notCourse   == <<fbVars, chatVars, circuitVars, credVars, formVars>>
notCircuit  == <<fbVars, chatVars, courseVars, credVars, formVars>>
notCred     == <<fbVars, chatVars, courseVars, circuitVars, formVars>>
notForm     == <<fbVars, chatVars, courseVars, circuitVars, credVars>>

FbIdle ==
    /\ query = <<>>
    /\ fbResult = None

ChatInit ==
    /\ messages = << Message(GreetingId, GreetingText, TRUE) >>
    /\ inputValue = <<>>
    /\ isLoading = FALSE
    /\ pc = "idle"
    /\ sentText = <<>>
    /\ upstream = NoUpstream
    /\ toasts = <<>>
    /\ consoleErrors = 0
    /\ netAttempts = 0
    /\ reqLog = <<>>
    /\ now = GreetingId + 2

NoUser == "null"

\* a Date | null: null, or the Date of a clock value
NoDate == <<>>
DateOf(t) == <<t>>
Users == {"user-1", "user-2"}

CourseInit ==
    /\ user = NoUser
    /\ courseIsLoading = FALSE
    /\ error = None
    /\ generationInBackground = FALSE
    /\ generationStartTime = NoDate
    /\ navigations = <<>>
    /\ courseToasts = <<>>
    /\ courseErrors = 0
    /\ submits = 0
    /\ calls = <<>>

(***************************************************************************)
(* The gateway of the design document: its Circuit Policy for one service  *)
(* and its Credential Resolver. The gateway's code is not among the        *)
(* sources; both are modelled from the design.                             *)
(***************************************************************************)
CircuitInit ==
    /\ circuitState = "CLOSED"
    /\ consecutiveFailures = 0
    /\ coolDownLeft = 0
    /\ inFlight = {}
    /\ transportCalls = 0
    /\ envelopes = <<>>
    /\ routed = 0

Services == {"resume-analyzer", "profile-service", "course-service", "dsa-service"}

\* the services RUNNING_SERVICES.md gives a key of their own
ServicesWithOverride == {"resume-analyzer", "profile-service", "course-service"}

Absent == "absent"
MissingCredentialError == "MissingCredentialError"

DefaultKeyValues == {Absent, "", "default-key"}
OverrideKeyValues == {Absent, "", "service-key"}

NotResolved == [service |-> None, result |-> None]

\* the configuration at rest: a default key and no overrides
CredIdle ==
    /\ defaultKey = "default-key"
    /\ overrideKey = [svc \in Services |-> Absent]
    /\ resolved = NotResolved

(***************************************************************************)
(* Classification check: Init draws the query, Classify applies the        *)
(* function.                                                                *)
(***************************************************************************)
\* CSECourseForm.tsx lines 42-48
FormInit ==
    /\ selectedSubject = <<>>
    /\ customTopic = <<>>
    /\ purpose = "exam_preparation"
    /\ difficulty = "intermediate"
    /\ customPrompt = <<>>
    /\ includeExamPrep = TRUE
    /\ showNonCSEWarning = FALSE
    /\ formSubmits = 0
    /\ onSubmitCalls = 0
    /\ onSubmitLast = <<>>

FbInit ==
    /\ query \in Queries
    /\ fbResult = None
    /\ ChatInit
    /\ CourseInit
    /\ CircuitInit
    /\ CredIdle
    /\ FormInit

Classify ==
    /\ fbResult = None
    /\ fbResult' = getFallbackResponse(query)
    /\ UNCHANGED <<query, notFallback>>

FallbackSpec == FbInit /\ [][Classify]_vars

(***************************************************************************)
(* DSAChatbot.handleSendMessage and the input field.                       *)
(***************************************************************************)
\* <Input onChange={(e) => setInputValue(e.target.value)} disabled={isLoading}>
TypeInput(value) ==
    /\ ~isLoading
    /\ inputValue' = value
    /\ UNCHANGED <<messages, isLoading, pc, sentText, upstream, toasts,
                   consoleErrors, netAttempts, reqLog, now, notChat>>

\* a faulty variant of sendRefused: the input is tested without trim()
sendRefusedNoTrim == inputValue = <<>> \/ isLoading

\* if (!inputValue.trim() || isLoading) return;
sendRefused == trim(inputValue) = <<>> \/ isLoading

SendIgnored ==
    /\ sendRefused
    /\ UNCHANGED vars

\* the handler took the live call of a logged request for failed (it ran the catch block)
callFailed(entry) ==
    entry.source = "FALLBACK"

RECURSIVE failedInARow(_)
\* the number of failed calls in a row that end log
failedInARow(log) ==
    IF log = <<>> \/ ~callFailed(log[Len(log)]) THEN 0
    ELSE 1 + failedInARow(SubSeq(log, 1, Len(log) - 1))

\* a faulty variant of SendMessage: a circuit that opens after MaxThreshold failed calls in
\* a row and answers from the fallback table without calling fetch
SendMessageCircuit ==
    /\ trim(inputValue) # <<>> /\ ~isLoading
    /\ Len(reqLog) < MaxSends
    /\ inputValue' = <<>>
    /\ sentText' = inputValue
    /\ IF failedInARow(reqLog) >= MaxThreshold
       THEN /\ messages' = Append(Append(messages, Message(now, inputValue, FALSE)),
                              Message(now + 1, getFallbackResponse(inputValue), TRUE))
            /\ reqLog' = Append(reqLog, [text |-> inputValue, up |-> NoUpstream,
                                         attempts |-> 0, source |-> "FALLBACK"])
            /\ toasts' = Append(toasts, [title |-> "Connection Issue",
                                         req |-> Len(reqLog) + 1])
            /\ consoleErrors' = consoleErrors + 1
            /\ UNCHANGED <<isLoading, pc, upstream, netAttempts>>
       ELSE /\ messages' = Append(messages, Message(now, inputValue, FALSE))
            /\ isLoading' = TRUE
            /\ netAttempts' = netAttempts + 1
            /\ \E up \in Upstreams :
                  /\ upstream' = up
                  /\ reqLog' = Append(reqLog, [text |-> inputValue, up |-> up,
                                               attempts |-> 1, source |-> None])
            /\ pc' = "awaitFetch"
            /\ UNCHANGED <<toasts, consoleErrors>>
    /\ UNCHANGED <<now, notChat>>

\* lines 52-74: the user message, the field cleared, loading set, fetch issued
SendMessage ==
    /\ ~sendRefused
    /\ Len(reqLog) < MaxSends
    /\ messages' = Append(messages, Message(now, inputValue, FALSE))
    /\ inputValue' = <<>>
    /\ isLoading' = TRUE
    /\ sentText' = inputValue
    /\ netAttempts' = netAttempts + 1
    /\ \E up \in Upstreams :
          /\ upstream' = up
          /\ reqLog' = Append(reqLog, [text |-> inputValue, up |-> up,
                                       attempts |-> 1, source |-> None])
    /\ pc' = "awaitFetch"
    /\ UNCHANGED <<toasts, consoleErrors, now, notChat>>

\* a faulty variant of responseNotOk: the test inverted
responseNotOkInverted(up) == up.ok

\* line 76: if (!response.ok) throw
responseNotOk(up) == ~up.ok

\* a faulty variant of botContent: the || default dropped
botContentNoDefault(result) == result.response

\* line 84: result.response || "I'm having trouble understanding that..."
botContent(result) ==
    IF result.response # "" THEN result.response ELSE RephraseText

answered(source) ==
    [reqLog EXCEPT ![Len(reqLog)].source = source]

\* a faulty variant of catchBlock: the fallback is served without the toast
catchBlockSilent ==
    /\ consoleErrors' = consoleErrors + 1
    /\ messages' = Append(messages,
                      Message(now + 1, getFallbackResponse(sentText), TRUE))
    /\ UNCHANGED toasts
    /\ reqLog' = answered("FALLBACK")

\* a faulty variant of catchBlock: the fallback is looked up for the field's current value
catchBlockCurrentInput ==
    /\ consoleErrors' = consoleErrors + 1
    /\ messages' = Append(messages,
                      Message(now + 1, getFallbackResponse(inputValue), TRUE))
    /\ toasts' = Append(toasts, [title |-> "Connection Issue", req |-> Len(reqLog)])
    /\ reqLog' = answered("FALLBACK")

\* lines 90-109: console.error, the fallback reply, the toast
catchBlock ==
    /\ consoleErrors' = consoleErrors + 1
    /\ messages' = Append(messages,
                      Message(now + 1, getFallbackResponse(sentText), TRUE))
    /\ toasts' = Append(toasts, [title |-> "Connection Issue", req |-> Len(reqLog)])
    /\ reqLog' = answered("FALLBACK")

\* a faulty variant of finallyBlock: setIsLoading(false) left out
finallyBlockStillLoading ==
    /\ UNCHANGED isLoading
    /\ pc' = "idle"

\* lines 110-112
finallyBlock ==
    /\ isLoading' = FALSE
    /\ pc' = "idle"

\* await fetch(...) rejects
FetchRejects ==
    /\ pc = "awaitFetch"
    /\ upstream.kind = "reject"
    /\ catchBlock
    /\ finallyBlock
    /\ UNCHANGED <<inputValue, sentText, upstream, netAttempts, now, notChat>>

\* await fetch(...) resolves: line 76 throws, or the handler goes on to await response.json()
FetchResolves ==
    /\ pc = "awaitFetch"
    /\ upstream.kind = "response"
    /\ IF responseNotOk(upstream)
       THEN /\ catchBlock
            /\ finallyBlock
       ELSE /\ pc' = "awaitJson"
            /\ UNCHANGED <<messages, isLoading, toasts, consoleErrors, reqLog>>
    /\ UNCHANGED <<inputValue, sentText, upstream, netAttempts, now, notChat>>

\* a faulty variant of JsonSettles: reading .response of a null body does not throw
JsonSettlesNullLive ==
    /\ pc = "awaitJson"
    /\ upstream.json # "never"
    /\ IF upstream.json = "invalid"
       THEN catchBlock
       ELSE /\ messages' = Append(messages, Message(now + 1, botContent(upstream), TRUE))
            /\ reqLog' = answered("LIVE")
            /\ UNCHANGED <<toasts, consoleErrors>>
    /\ finallyBlock
    /\ UNCHANGED <<inputValue, sentText, upstream, netAttempts, now, notChat>>

\* await response.json() settles: it rejects on a body that is not JSON; reading
\* .response of null throws; otherwise lines 82-89 append the live reply
JsonSettles ==
    /\ pc = "awaitJson"
    /\ upstream.json # "never"
    /\ IF upstream.json \in {"invalid", "null"}
       THEN catchBlock
       ELSE /\ messages' = Append(messages, Message(now + 1, botContent(upstream), TRUE))
            /\ reqLog' = answered("LIVE")
            /\ UNCHANGED <<toasts, consoleErrors>>
    /\ finallyBlock
    /\ UNCHANGED <<inputValue, sentText, upstream, netAttempts, now, notChat>>

\* Date.now() moves on between two steps of the page
Tick ==
    /\ now < GreetingId + 2 + MaxTicks
    /\ now' = now + 1
    /\ UNCHANGED <<messages, inputValue, isLoading, pc, sentText, upstream, toasts,
                   consoleErrors, netAttempts, reqLog, notChat>>

ChatNext ==
    \/ \E value \in ChatInputs : TypeInput(value)
    \/ SendIgnored
    \/ SendMessage
    \/ FetchRejects
    \/ FetchResolves
    \/ JsonSettles

Init == FbIdle /\ ChatInit /\ CourseInit /\ CircuitInit /\ CredIdle /\ FormInit

Spec == Init /\ [][ChatNext]_vars


\* the chatbot with a running clock
ClockNext ==
    \/ Tick
    \/ ChatNext

ClockSpec == Init /\ [][ClockNext]_vars

(***************************************************************************)
(* CourseGenerator.handleSubmit. The form's arguments are passed through   *)
(* to courseService.generateCourse, whose promise the environment settles: *)
(* it resolves with a course id, rejects, or never settles. handleSubmit   *)
(* has no guard on isLoading, so submits may overlap.                      *)
(***************************************************************************)
CourseRequests ==
    { [courseName |-> "Operating Systems", purpose |-> "exam_preparation",
       difficulty |-> "intermediate"] }

CourseIds == {"course-1", "course-2"}

CallOutcomes ==
    { [kind |-> "resolve", courseId |-> c] : c \in CourseIds }
    \cup { [kind |-> "reject", courseId |-> None],
           [kind |-> "hang", courseId |-> None] }

FailureText == "Failed to generate course. Please try again."

AuthRoute == [path |-> "/auth", id |-> None]
CourseRoute(courseId) == [path |-> "/course", id |-> courseId]

pendingCalls == { i \in 1..Len(calls) : calls[i].status = "pending" }

\* the environment: the auth state changes
SignIn(u) ==
    /\ user # u
    /\ user' = u
    /\ UNCHANGED <<courseIsLoading, error, generationInBackground,
                   generationStartTime, navigations, courseToasts, courseErrors,
                   submits, calls, notCourse>>

SignOut ==
    /\ user # NoUser
    /\ user' = NoUser
    /\ UNCHANGED <<courseIsLoading, error, generationInBackground,
                   generationStartTime, navigations, courseToasts, courseErrors,
                   submits, calls, notCourse>>

\* the generateCourse call of line 70, as handleSubmit issues it
issuedCall(req, outcome) ==
    [submit |-> submits + 1, request |-> req, userId |-> user,
     outcome |-> outcome, status |-> "pending",
     sequential |-> pendingCalls = {}]

\* a faulty variant of HandleSubmit: a circuit that stops calling the service after two
\* rejected calls in a row and reports the failure at once
HandleSubmitCircuit(req) ==
    /\ submits < MaxSubmits
    /\ submits' = submits + 1
    /\ IF user = NoUser
       THEN /\ navigations' = Append(navigations, AuthRoute)
            /\ UNCHANGED <<courseIsLoading, error, calls, courseToasts, courseErrors>>
       ELSE IF /\ Len(calls) >= 2
               /\ \A i \in (Len(calls) - 1)..Len(calls) :
                     calls[i].status = "done" /\ calls[i].outcome.kind = "reject"
       THEN /\ courseIsLoading' = FALSE
            /\ error' = FailureText
            /\ courseToasts' = Append(courseToasts,
                                  [title |-> "Error", submit |-> submits + 1])
            /\ courseErrors' = courseErrors + 1
            /\ UNCHANGED <<calls, navigations>>
       ELSE /\ courseIsLoading' = TRUE
            /\ error' = None
            /\ \E outcome \in CallOutcomes :
                  calls' = Append(calls, issuedCall(req, outcome))
            /\ UNCHANGED <<navigations, courseToasts, courseErrors>>
    /\ UNCHANGED <<user, generationInBackground, generationStartTime, notCourse>>

\* a faulty variant of HandleSubmit: the auth gate left out
HandleSubmitNoGate(req) ==
    /\ submits < MaxSubmits
    /\ submits' = submits + 1
    /\ courseIsLoading' = TRUE
    /\ error' = None
    /\ \E outcome \in CallOutcomes :
          calls' = Append(calls, issuedCall(req, outcome))
    /\ UNCHANGED <<user, navigations, generationInBackground, generationStartTime,
                   courseToasts, courseErrors, notCourse>>

\* lines 60-70: the auth gate, then loading set, the error cleared, the call issued
HandleSubmit(req) ==
    /\ submits < MaxSubmits
    /\ submits' = submits + 1
    /\ IF user = NoUser
       THEN /\ navigations' = Append(navigations, AuthRoute)
            /\ UNCHANGED <<courseIsLoading, error, calls>>
       ELSE /\ courseIsLoading' = TRUE
            /\ error' = None
            /\ \E outcome \in CallOutcomes :
                  calls' = Append(calls, issuedCall(req, outcome))
            /\ UNCHANGED navigations
    /\ UNCHANGED <<user, generationInBackground, generationStartTime,
                   courseToasts, courseErrors, notCourse>>

\* lines 71-73 and 82-84: the call of submit i resolved
GenerateResolves(i) ==
    /\ i \in pendingCalls
    /\ calls[i].outcome.kind = "resolve"
    /\ calls' = [calls EXCEPT ![i].status = "done"]
    /\ generationInBackground' = TRUE
    /\ generationStartTime' = DateOf(now)
    /\ navigations' = Append(navigations, CourseRoute(calls[i].outcome.courseId))
    /\ courseIsLoading' = FALSE
    /\ UNCHANGED <<user, error, courseToasts, courseErrors, submits, notCourse>>

\* a faulty variant of GenerateRejects: the catch block calls generateCourse once more
GenerateRejectsRetry(i) ==
    /\ i \in pendingCalls
    /\ calls[i].outcome.kind = "reject"
    /\ \E outcome \in CallOutcomes :
          calls' = Append([calls EXCEPT ![i].status = "done"],
                          [calls[i] EXCEPT !.outcome = outcome])
    /\ courseErrors' = courseErrors + 1
    /\ error' = FailureText
    /\ courseToasts' = Append(courseToasts,
                          [title |-> "Error", submit |-> calls[i].submit])
    /\ courseIsLoading' = FALSE
    /\ UNCHANGED <<user, generationInBackground, generationStartTime,
                   navigations, submits, notCourse>>

\* a faulty variant of GenerateRejects: the page is left for the course route although
\* the call failed
GenerateRejectsNavigates(i) ==
    /\ i \in pendingCalls
    /\ calls[i].outcome.kind = "reject"
    /\ calls' = [calls EXCEPT ![i].status = "done"]
    /\ courseErrors' = courseErrors + 1
    /\ error' = FailureText
    /\ courseToasts' = Append(courseToasts,
                          [title |-> "Error", submit |-> calls[i].submit])
    /\ navigations' = Append(navigations, CourseRoute(calls[i].outcome.courseId))
    /\ courseIsLoading' = FALSE
    /\ UNCHANGED <<user, generationInBackground, generationStartTime,
                   submits, notCourse>>

\* lines 74-84: the call of submit i rejected
GenerateRejects(i) ==
    /\ i \in pendingCalls
    /\ calls[i].outcome.kind = "reject"
    /\ calls' = [calls EXCEPT ![i].status = "done"]
    /\ courseErrors' = courseErrors + 1
    /\ error' = FailureText
    /\ courseToasts' = Append(courseToasts,
                          [title |-> "Error", submit |-> calls[i].submit])
    /\ courseIsLoading' = FALSE
    /\ UNCHANGED <<user, generationInBackground, generationStartTime,
                   navigations, submits, notCourse>>

CourseNext ==
    \/ \E u \in Users : SignIn(u)
    \/ SignOut
    \/ \E req \in CourseRequests : HandleSubmit(req)
    \/ \E i \in 1..MaxSubmits : GenerateResolves(i)
    \/ \E i \in 1..MaxSubmits : GenerateRejects(i)

CourseSpec == Init /\ [][CourseNext]_vars

(***************************************************************************)
(* Progress. The chatbot and the course page share no state, so each is    *)
(* run with the other at rest, the user typing one query and one user      *)
(* signing in. Once a promise has settled the event loop runs the          *)
(* continuation that awaits it: weak fairness of the steps that follow an  *)
(* await. Nothing obliges an upstream to answer.                           *)
(***************************************************************************)
ProgressNext ==
    \/ CourseInit /\ TypeInput(<<"B","f","s">>)
    \/ CourseInit /\ SendMessage
    \/ CourseInit /\ FetchRejects
    \/ CourseInit /\ FetchResolves
    \/ CourseInit /\ JsonSettles
    \/ ChatInit /\ SignIn("user-1")
    \/ ChatInit /\ \E req \in CourseRequests : HandleSubmit(req)
    \/ ChatInit /\ \E i \in 1..MaxSubmits : GenerateResolves(i)
    \/ ChatInit /\ \E i \in 1..MaxSubmits : GenerateRejects(i)

FairSpec ==
    /\ Init
    /\ [][ProgressNext]_vars
    /\ WF_vars(CourseInit /\ FetchRejects)
    /\ WF_vars(CourseInit /\ FetchResolves)
    /\ WF_vars(CourseInit /\ JsonSettles)
    /\ \A i \in 1..MaxSubmits :
          /\ WF_vars(ChatInit /\ GenerateResolves(i))
          /\ WF_vars(ChatInit /\ GenerateRejects(i))

(***************************************************************************)
(* Circuit Policy and Request Router, for one service (design 4.4, 4.5).   *)
(* Requests run in parallel: a request is dispatched by Route and its      *)
(* upstream call ends later in CallSucceeds or CallFails. The outcome of   *)
(* a call that was dispatched while the circuit was closed and ends after  *)
(* it opened does not change the circuit.                                  *)
(***************************************************************************)
Envelope(req, source) ==
    [req |-> req, source |-> source, warning |-> source = "FALLBACK"]

probes == { c \in inFlight : c.probe }

\* a faulty variant of Route: a half-open circuit lets every request through
RouteHalfOpenPasses ==
    /\ routed < MaxRequests
    /\ routed' = routed + 1
    /\ IF circuitState = "OPEN" /\ coolDownLeft > 0
       THEN /\ envelopes' = Append(envelopes, Envelope(routed + 1, "FALLBACK"))
            /\ UNCHANGED <<circuitState, inFlight, transportCalls>>
       ELSE /\ inFlight' = inFlight \cup
                  {[req |-> routed + 1, probe |-> circuitState # "CLOSED"]}
            /\ transportCalls' = transportCalls + 1
            /\ circuitState' = IF circuitState = "CLOSED" THEN "CLOSED" ELSE "HALF_OPEN"
            /\ UNCHANGED envelopes
    /\ UNCHANGED <<consecutiveFailures, coolDownLeft, notCircuit>>

\* route(), steps 3 and 4: fallback at once when the circuit is open (or half-open
\* with its probe outstanding); the probe when the cool-down has elapsed; the live
\* call when the circuit is closed
Route ==
    /\ routed < MaxRequests
    /\ routed' = routed + 1
    /\ IF circuitState = "CLOSED"
       THEN /\ inFlight' = inFlight \cup {[req |-> routed + 1, probe |-> FALSE]}
            /\ transportCalls' = transportCalls + 1
            /\ UNCHANGED <<circuitState, envelopes>>
       ELSE IF circuitState = "OPEN" /\ coolDownLeft = 0
       THEN /\ circuitState' = "HALF_OPEN"
            /\ inFlight' = inFlight \cup {[req |-> routed + 1, probe |-> TRUE]}
            /\ transportCalls' = transportCalls + 1
            /\ UNCHANGED envelopes
       ELSE /\ envelopes' = Append(envelopes, Envelope(routed + 1, "FALLBACK"))
            /\ UNCHANGED <<circuitState, inFlight, transportCalls>>
    /\ UNCHANGED <<consecutiveFailures, coolDownLeft, notCircuit>>

\* the upstream call c succeeded: source=LIVE; a probe closes the circuit
CallSucceeds(c) ==
    /\ c \in inFlight
    /\ inFlight' = inFlight \ {c}
    /\ envelopes' = Append(envelopes, Envelope(c.req, "LIVE"))
    /\ IF c.probe
       THEN /\ circuitState' = "CLOSED"
            /\ consecutiveFailures' = 0
       ELSE IF circuitState = "CLOSED"
       THEN /\ consecutiveFailures' = 0
            /\ UNCHANGED circuitState
       ELSE UNCHANGED <<circuitState, consecutiveFailures>>
    /\ UNCHANGED <<coolDownLeft, transportCalls, routed, notCircuit>>

\* the upstream call c failed: source=FALLBACK; a probe reopens the circuit, the
\* Threshold-th failure in a row opens it
CallFails(c) ==
    /\ c \in inFlight
    /\ inFlight' = inFlight \ {c}
    /\ envelopes' = Append(envelopes, Envelope(c.req, "FALLBACK"))
    /\ IF c.probe
       THEN /\ circuitState' = "OPEN"
            /\ coolDownLeft' = CoolDown
            /\ UNCHANGED consecutiveFailures
       ELSE IF circuitState = "CLOSED"
       THEN /\ consecutiveFailures' = consecutiveFailures + 1
            /\ IF consecutiveFailures + 1 >= Threshold
               THEN circuitState' = "OPEN" /\ coolDownLeft' = CoolDown
               ELSE UNCHANGED <<circuitState, coolDownLeft>>
       ELSE UNCHANGED <<circuitState, consecutiveFailures, coolDownLeft>>
    /\ UNCHANGED <<transportCalls, routed, notCircuit>>

\* the cool-down timer of an open circuit
CoolDownTick ==
    /\ circuitState = "OPEN"
    /\ coolDownLeft > 0
    /\ coolDownLeft' = coolDownLeft - 1
    /\ UNCHANGED <<circuitState, consecutiveFailures, inFlight, transportCalls,
                   envelopes, routed, notCircuit>>

CircuitNext ==
    \/ Route
    \/ \E c \in inFlight : CallSucceeds(c)
    \/ \E c \in inFlight : CallFails(c)
    \/ CoolDownTick

CircuitSpec == Init /\ [][CircuitNext]_vars

(***************************************************************************)
(* Credential Resolver (design 4.2): the service's own key when it exists  *)
(* and is not empty, else the default key, else MissingCredentialError.    *)
(***************************************************************************)
present(key) == key # Absent /\ key # ""

\* a faulty variant of credentialFor: the default key takes precedence
credentialForDefaultFirst(svc) ==
    IF present(defaultKey) THEN defaultKey
    ELSE IF present(overrideKey[svc]) THEN overrideKey[svc]
    ELSE MissingCredentialError

credentialFor(svc) ==
    IF present(overrideKey[svc]) THEN overrideKey[svc]
    ELSE IF present(defaultKey) THEN defaultKey
    ELSE MissingCredentialError

CredInit ==
    /\ defaultKey \in DefaultKeyValues
    /\ overrideKey \in [Services -> OverrideKeyValues]
    /\ \A svc \in Services \ ServicesWithOverride : overrideKey[svc] = Absent
    /\ resolved = NotResolved
    /\ FbIdle /\ ChatInit /\ CourseInit /\ CircuitInit /\ FormInit

ResolveCredential(svc) ==
    /\ resolved' = [service |-> svc, result |-> credentialFor(svc)]
    /\ UNCHANGED <<defaultKey, overrideKey, notCred>>

CredNext == \E svc \in Services : ResolveCredential(svc)

CredSpec == CredInit /\ [][CredNext]_vars

(***************************************************************************)
(* Properties of the chatbot.                                              *)
(***************************************************************************)
\* the upstream of a call answers at all: fetch settles, and so does the body when it is read
settles(up) ==
    \/ up.kind = "reject"
    \/ up.kind = "response" /\ (up.ok => up.json # "never")

\* the live call succeeded: a 2xx answer whose body is the {response} object of the contract
liveSucceeded(up) ==
    up.kind = "response" /\ up.ok /\ up.json = "object" /\ up.response # ""

\* the handler has finished with request k
finished(k) == k < Len(reqLog) \/ pc = "idle"

userIndex(k) == 2 * k
replyIndex(k) == 2 * k + 1

ChatSettle == FetchRejects \/ FetchResolves \/ JsonSettles

\* C1: every accepted request whose upstream call ends (success, refusal, non-2xx
\* status, unparseable body) gets exactly one bot reply with non-empty content right
\* after its user message, and the handler can always take the step that ends it.
TotalResponse ==
    /\ Len(messages) = 1 + 2 * Len(reqLog) - (IF pc = "idle" THEN 0 ELSE 1)
    /\ \A k \in 1..Len(reqLog) :
          /\ ~messages[userIndex(k)].isBot
          /\ messages[userIndex(k)].content = reqLog[k].text
          /\ finished(k) =>
                /\ messages[replyIndex(k)].isBot
                /\ messages[replyIndex(k)].content # ""
                /\ reqLog[k].source \in {"LIVE", "FALLBACK"}
    /\ (pc # "idle" /\ settles(upstream)) => ENABLED ChatSettle
    /\ (pc = "idle") = ~isLoading

TotalResponseWitness ==
    /\ pc = "idle"
    /\ \E k \in 1..Len(reqLog) : reqLog[k].up.kind = "reject"
    /\ \E k \in 1..Len(reqLog) : reqLog[k].up.json = "null" /\ reqLog[k].up.ok
    /\ \E k \in 1..Len(reqLog) : reqLog[k].source = "LIVE"

\* C2: a reply produced by the fallback path belongs to a request whose live call
\* did not succeed; a request whose live call succeeded is answered by the live path.
FallbackProvenance ==
    \A k \in 1..Len(reqLog) :
        /\ reqLog[k].source = "FALLBACK" => ~liveSucceeded(reqLog[k].up)
        /\ (finished(k) /\ liveSucceeded(reqLog[k].up)) =>
              /\ reqLog[k].source = "LIVE"
              /\ messages[replyIndex(k)].content = reqLog[k].up.response

FallbackProvenanceWitness ==
    /\ pc = "idle"
    /\ \E k \in 1..Len(reqLog) :
          reqLog[k].source = "FALLBACK" /\ reqLog[k].up.kind = "response"
    /\ \E k \in 1..Len(reqLog) :
          reqLog[k].source = "LIVE" /\ liveSucceeded(reqLog[k].up)

\* C9: a warning (the "Connection Issue" toast and a console error) is raised for a
\* request exactly when its reply came from the fallback path, and once.
toastsFor(k) == { i \in 1..Len(toasts) : toasts[i].req = k }

DegradationObservable ==
    /\ consoleErrors = Len(toasts)
    /\ \A i \in 1..Len(toasts) : toasts[i].title = "Connection Issue"
    /\ \A k \in 1..Len(reqLog) :
          /\ Cardinality(toastsFor(k)) = (IF reqLog[k].source = "FALLBACK" THEN 1 ELSE 0)

DegradationObservableWitness ==
    /\ \E k \in 1..Len(reqLog) : reqLog[k].source = "FALLBACK" /\ toastsFor(k) # {}
    /\ \E k \in 1..Len(reqLog) : reqLog[k].source = "LIVE" /\ toastsFor(k) = {}

(***************************************************************************)
(* The circuit of the design, read on the chatbot: the requests before     *)
(* request k that failed in a row.                                          *)
(***************************************************************************)
failuresBefore(k) == failedInARow(SubSeq(reqLog, 1, k - 1))

\* C4 as claimed, for a threshold t: a request accepted after t failed calls in a row
\* (the clock has not moved, so it is within any cool-down) makes no network attempt
\* and is answered by the fallback path.
circuitOpensAt(t) ==
    \A k \in 1..Len(reqLog) :
        failuresBefore(k) >= t =>
            /\ reqLog[k].attempts = 0
            /\ reqLog[k].source = "FALLBACK"

CircuitOpens == \E t \in 1..MaxThreshold : circuitOpensAt(t)

\* C4, amended: the chatbot keeps no circuit state; every accepted request makes
\* exactly one network attempt, however many calls failed in a row before it, and a
\* fallback reply is only ever given after the request's own attempt has failed.
EveryRequestAttempts ==
    /\ netAttempts = Len(reqLog)
    /\ \A k \in 1..Len(reqLog) :
          /\ reqLog[k].attempts = 1
          /\ reqLog[k].source = "FALLBACK" =>
                /\ settles(reqLog[k].up)
                /\ ~liveSucceeded(reqLog[k].up)

EveryRequestAttemptsWitness ==
    \E k \in 1..Len(reqLog) :
        /\ failuresBefore(k) >= MaxThreshold
        /\ reqLog[k].attempts = 1
        /\ netAttempts = k

(***************************************************************************)
(* Properties of getFallbackResponse, against the topic table of the       *)
(* design: first match wins in table order.                                 *)
(***************************************************************************)
TopicTable ==
    << [keywords |-> {KwArray, KwSorting},        entry |-> ArrayText],
       [keywords |-> {KwTree, KwBinary},          entry |-> TreeText],
       [keywords |-> {KwGraph, KwBfs, KwDfs},     entry |-> GraphText],
       [keywords |-> {KwDynamic, KwDp},           entry |-> DynamicText],
       [keywords |-> {KwTime, KwComplexity},      entry |-> TimeText] >>

\* character d is character c lower-cased
lowerOf(c, d) ==
    \/ \E i \in 1..Len(UpperChars) : c = UpperChars[i] /\ d = LowerChars[i]
    \/ c = d /\ \A i \in 1..Len(UpperChars) : c # UpperChars[i]

\* keyword kw occurs in q, case of q ignored
occursIn(kw, q) ==
    \E i \in 0..(Len(q) - Len(kw)) :
        \A j \in 1..Len(kw) : lowerOf(q[i + j], kw[j])

topicsOf(q) ==
    { i \in 1..Len(TopicTable) : \E kw \in TopicTable[i].keywords : occursIn(kw, q) }

firstTopic(q) == CHOOSE i \in topicsOf(q) : \A j \in topicsOf(q) : i <= j

\* C3: the result is the entry of the first topic in table order one of whose
\* keywords occurs in the lower-cased query, the generic text when none occurs.
FirstMatchWins ==
    fbResult # None =>
        fbResult = (IF topicsOf(query) = {} THEN GenericText
                    ELSE TopicTable[firstTopic(query)].entry)

FirstMatchWinsWitness ==
    /\ fbResult = ArrayText
    /\ Cardinality(topicsOf(query)) >= 2
    /\ query # toLowerCase(query)

(***************************************************************************)
(* Properties of the course page.                                          *)
(***************************************************************************)
callsOf(s) == { i \in 1..Len(calls) : calls[i].submit = s }

\* C8: a submit results in at most one generateCourse call, whether the call
\* succeeds or fails; a submit without a signed-in user results in none.
NoAutomaticRetry ==
    /\ Len(calls) <= submits
    /\ \A s \in 1..submits : Cardinality(callsOf(s)) <= 1
    /\ \A i \in 1..Len(calls) : calls[i].submit \in 1..submits

NoAutomaticRetryWitness ==
    /\ \E i \in 1..Len(calls) :
          calls[i].status = "done" /\ calls[i].outcome.kind = "reject"
    /\ \E i \in 1..Len(calls) :
          calls[i].status = "done" /\ calls[i].outcome.kind = "resolve"

\* three submits by a signed-in user, one after the other, the service refusing
\* every call made
threeRefusedSubmits ==
    /\ submits = 3
    /\ \A n \in 1..Len(navigations) : navigations[n] # AuthRoute
    /\ \A i \in 1..Len(calls) :
          /\ calls[i].status = "done"
          /\ calls[i].outcome.kind = "reject"
          /\ calls[i].sequential

noPendingCallHangs ==
    \A i \in pendingCalls : calls[i].outcome.kind # "hang"

probing == probes # {}

lastEnvelope == envelopes[Len(envelopes)]

\* a step in which the outstanding probe ends
probeEnds == probing /\ probes' = {}

\* C7: once the cool-down of an open circuit has elapsed exactly one request is
\* let through as a probe, and no other request reaches the network while it is
\* outstanding; the probe's success closes the circuit with consecutiveFailures 0,
\* its failure reopens it with the cool-down restarted.
HalfOpenProbing ==
    [][ /\ Cardinality(probes') <= 1
        /\ (circuitState' = "HALF_OPEN") = (probes' # {})
        /\ probing => transportCalls' = transportCalls
        /\ (~probing /\ probes' # {}) =>
              /\ circuitState = "OPEN" /\ coolDownLeft = 0
              /\ transportCalls' = transportCalls + 1
        /\ (circuitState = "OPEN" /\ coolDownLeft > 0) =>
              transportCalls' = transportCalls
        /\ (probeEnds /\ lastEnvelope'.source = "LIVE") =>
              circuitState' = "CLOSED" /\ consecutiveFailures' = 0
        /\ (probeEnds /\ lastEnvelope'.source = "FALLBACK") =>
              circuitState' = "OPEN" /\ coolDownLeft' = CoolDown
      ]_vars

\* a probe succeeded after another probe had failed, with a request answered from
\* the fallback while a probe was outstanding
HalfOpenProbingWitness ==
    /\ circuitState = "CLOSED"
    /\ consecutiveFailures = 0
    /\ routed = MaxRequests
    /\ inFlight = {}
    /\ transportCalls = Threshold + 1
    /\ lastEnvelope.source = "LIVE"
    /\ lastEnvelope.req < MaxRequests

(***************************************************************************)
(* Properties of the Credential Resolver.                                  *)
(***************************************************************************)
\* C10: credentialFor returns the service's own key when it is present and not
\* empty, the default key when the service's key is absent or empty and a default
\* exists, and fails when neither exists; resolving changes no configuration.
CredentialResolution ==
    [][ /\ defaultKey' = defaultKey
        /\ overrideKey' = overrideKey
        /\ LET svc == resolved'.service
               own == overrideKey[svc]
           IN  /\ svc \in Services
               /\ (own \notin {Absent, ""}) => resolved'.result = own
               /\ (own \in {Absent, ""} /\ defaultKey \notin {Absent, ""}) =>
                     resolved'.result = defaultKey
               /\ (own \in {Absent, ""} /\ defaultKey \in {Absent, ""}) =>
                     resolved'.result = MissingCredentialError
      ]_vars

CredentialResolutionWitness ==
    /\ resolved.service = "course-service"
    /\ resolved.result = "service-key"
    /\ defaultKey = "default-key"
    /\ overrideKey["resume-analyzer"] = ""

(***************************************************************************)
(* Failure and fallback on the chatbot.                                    *)
(***************************************************************************)
\* the call of the request ended in one of the ways the handler takes for failed:
\* fetch rejected, a non-2xx status, a body that is not JSON, a JSON null body
throwsInTry(up) ==
    \/ up.kind = "reject"
    \/ up.kind = "response" /\ ~up.ok
    \/ up.kind = "response" /\ up.ok /\ up.json \in {"invalid", "null"}

\* a 2xx answer whose JSON body is an object without a usable response field
noResponseField(up) ==
    up.kind = "response" /\ up.ok /\ up.json = "object" /\ up.response = ""

\* C11 as claimed: every finished request whose call was not a success (a body
\* without a response field included) is answered by the keyword fallback of its
\* text; only a successful call is answered by the upstream's own response.
FailureImpliesFallback ==
    \A k \in 1..Len(reqLog) :
        finished(k) =>
            IF liveSucceeded(reqLog[k].up)
            THEN /\ reqLog[k].source = "LIVE"
                 /\ messages[replyIndex(k)].content = reqLog[k].up.response
            ELSE /\ reqLog[k].source = "FALLBACK"
                 /\ messages[replyIndex(k)].content = getFallbackResponse(reqLog[k].text)

\* C11, amended: a rejected fetch, a non-2xx status, a body that is not JSON and a
\* JSON null body are answered by the keyword fallback of the request text; a 2xx
\* JSON body without a response field is answered on the live path with the
\* rephrase text and raises no warning; a successful call is answered with the
\* upstream's own response.
FailureAnswered ==
    \A k \in 1..Len(reqLog) :
        finished(k) =>
            /\ throwsInTry(reqLog[k].up) =>
                  /\ reqLog[k].source = "FALLBACK"
                  /\ messages[replyIndex(k)].content = getFallbackResponse(reqLog[k].text)
            /\ noResponseField(reqLog[k].up) =>
                  /\ reqLog[k].source = "LIVE"
                  /\ messages[replyIndex(k)].content = RephraseText
                  /\ toastsFor(k) = {}
            /\ liveSucceeded(reqLog[k].up) =>
                  /\ reqLog[k].source = "LIVE"
                  /\ messages[replyIndex(k)].content = reqLog[k].up.response
            /\ reqLog[k].source = "LIVE" =>
                  (liveSucceeded(reqLog[k].up) \/ noResponseField(reqLog[k].up))

FailureAnsweredWitness ==
    /\ pc = "idle"
    /\ \E k \in 1..Len(reqLog) :
          noResponseField(reqLog[k].up) /\ reqLog[k].source = "LIVE"
    /\ \E k \in 1..Len(reqLog) :
          reqLog[k].up.json = "invalid" /\ reqLog[k].source = "FALLBACK"
    /\ \E k \in 1..Len(reqLog) :
          reqLog[k].up.json = "null" /\ reqLog[k].source = "FALLBACK"

\* C12: the fallback reply of a failed request is getFallbackResponse of the text
\* that request sent, which is the text of its user message; while the request is
\* outstanding the handler holds that text although the input field is empty, and
\* the replies of earlier requests play no part.
FallbackKeyedByRequest ==
    /\ \A k \in 1..Len(reqLog) :
          reqLog[k].source = "FALLBACK" =>
              /\ messages[replyIndex(k)].isBot
              /\ messages[replyIndex(k)].content =
                     getFallbackResponse(messages[userIndex(k)].content)
              /\ messages[userIndex(k)].content = reqLog[k].text
    /\ pc # "idle" =>
          /\ inputValue = <<>>
          /\ sentText = reqLog[Len(reqLog)].text
          /\ sentText = messages[Len(messages)].content
          /\ trim(sentText) # <<>>

\* two failed requests with different texts, the keyword one after the generic one
FallbackKeyedByRequestWitness ==
    /\ pc = "idle"
    /\ inputValue = <<>>
    /\ \E j, k \in 1..Len(reqLog) :
          /\ j < k
          /\ reqLog[j].source = "FALLBACK"
          /\ reqLog[k].source = "FALLBACK"
          /\ messages[replyIndex(j)].content = GenericText
          /\ messages[replyIndex(k)].content = GraphText

(***************************************************************************)
(* One chat request at a time.                                             *)
(***************************************************************************)
\* the text is empty or consists of white space only
blank(s) == \A i \in 1..Len(s) : s[i] \in WhiteSpace

\* the requests that were sent and not answered yet
outstanding == { k \in 1..Len(reqLog) : reqLog[k].source = None }

\* the list after the greeting alternates user message, bot reply
alternates ==
    /\ messages[1].isBot /\ messages[1].id = GreetingId
    /\ \A i \in 2..Len(messages) : messages[i].isBot = (i % 2 = 1)

SingleInFlightState ==
    /\ Cardinality(outstanding) <= 1
    /\ outstanding = (IF isLoading THEN {Len(reqLog)} ELSE {})
    /\ (isLoading \/ blank(inputValue)) =>
          /\ ~ENABLED SendMessage
          /\ ENABLED SendIgnored
    /\ alternates
    /\ Len(messages) % 2 = (IF isLoading THEN 0 ELSE 1)

\* a step that issues a network call or appends a user message starts from a state
\* that is not loading and whose input is not blank, and issues exactly one call
SingleInFlightStep ==
    (netAttempts' # netAttempts \/ Len(reqLog') # Len(reqLog)
        \/ (Len(messages') > Len(messages) /\ ~messages'[Len(messages')].isBot)) =>
        /\ ~isLoading
        /\ ~blank(inputValue)
        /\ netAttempts' = netAttempts + 1
        /\ isLoading'

\* C13: at most one chat request is outstanding; a send while loading or with blank
\* input cannot issue a call and leaves the state as it is; the message list after
\* the greeting alternates user message, bot reply.
SingleInFlight == []SingleInFlightState /\ [][SingleInFlightStep]_vars

\* a second request is outstanding after a first one was answered: a send is refused
SingleInFlightWitness ==
    /\ isLoading
    /\ Len(reqLog) = 2
    /\ outstanding = {2}
    /\ Len(messages) = 4
    /\ reqLog[1].text = <<" ", "h", "i", " ">>

(***************************************************************************)
(* Message ids.                                                            *)
(***************************************************************************)
\* C14 as claimed: no two entries of the message list have the same id.
UniqueIds ==
    \A i, j \in 1..Len(messages) :
        messages[i].id = messages[j].id => i = j

\* a user message carries the id of the bot reply before it: the reply came at one
\* millisecond, the next send at the following one
idOfReplyReused ==
    \E i \in 2..Len(messages) - 1 :
        /\ messages[i].isBot
        /\ ~messages[i + 1].isBot
        /\ messages[i].id = messages[i + 1].id

(***************************************************************************)
(* Navigation of the course page.                                          *)
(***************************************************************************)
\* the calls that have ended in the given way
doneCalls(kind) ==
    { i \in 1..Len(calls) : calls[i].status = "done" /\ calls[i].outcome.kind = kind }

courseNavigations == { n \in 1..Len(navigations) : navigations[n].path = "/course" }

\* the call of a submit ends in this step
ends(i) == calls[i].status = "pending" /\ calls'[i].status = "done"

SuccessOnlyNavigationState ==
    /\ Cardinality(courseNavigations) = Cardinality(doneCalls("resolve"))
    /\ \A n \in courseNavigations :
          \E i \in doneCalls("resolve") : navigations[n].id = calls[i].outcome.courseId
    /\ Len(courseToasts) = Cardinality(doneCalls("reject"))
    /\ \A t \in 1..Len(courseToasts) :
          /\ courseToasts[t].title = "Error"
          /\ \E i \in doneCalls("reject") : calls[i].submit = courseToasts[t].submit
    /\ generationInBackground = (doneCalls("resolve") # {})
    /\ error # None => doneCalls("reject") # {}

SuccessOnlyNavigationStep ==
    /\ \A i \in 1..Len(calls) :
          ends(i) =>
              /\ ~courseIsLoading'
              /\ IF calls[i].outcome.kind = "resolve"
                 THEN /\ navigations' =
                            Append(navigations, CourseRoute(calls[i].outcome.courseId))
                      /\ calls[i].outcome.courseId \in CourseIds
                      /\ generationInBackground'
                      /\ UNCHANGED <<error, courseToasts>>
                 ELSE /\ UNCHANGED <<navigations, generationInBackground,
                                     generationStartTime>>
                      /\ error' = FailureText
                      /\ courseToasts' = Append(courseToasts,
                                            [title |-> "Error", submit |-> calls[i].submit])
    /\ Len(calls') > Len(calls) =>
          /\ error' = None
          /\ courseIsLoading'
          /\ UNCHANGED navigations
    /\ navigations' # navigations =>
          \/ user = NoUser /\ navigations' = Append(navigations, AuthRoute)
          \/ \E i \in 1..Len(calls) : ends(i) /\ calls[i].outcome.kind = "resolve"

\* C15: the page navigates to /course/<id> only when the generateCourse call of a
\* submit has succeeded, with the id that call returned; a failed call sets the error
\* text, raises the error toast, neither navigates nor sets generationInBackground;
\* either way isLoading is false when the submit has finished, and every
\* authenticated submit starts by clearing the error.
SuccessOnlyNavigation ==
    []SuccessOnlyNavigationState /\ [][SuccessOnlyNavigationStep]_vars

\* a failed submit, then a submit that cleared the error and succeeded
SuccessOnlyNavigationWitness ==
    /\ \E i \in doneCalls("reject") : \E j \in doneCalls("resolve") :
          /\ i < j
          /\ navigations[Len(navigations)] = CourseRoute(calls[j].outcome.courseId)
    /\ error = None
    /\ ~courseIsLoading
    /\ generationInBackground
    /\ Len(courseToasts) = 1

(***************************************************************************)
(* The authentication gate of the course page.                             *)
(***************************************************************************)
authNavigations == { n \in 1..Len(navigations) : navigations[n] = AuthRoute }

AuthGateState ==
    /\ \A i \in 1..Len(calls) :
          /\ calls[i].userId \in Users
          /\ calls[i].userId # NoUser
    /\ Cardinality(authNavigations) + Len(calls) = submits

\* handleSubmit runs without a signed-in user
AuthGateStep ==
    (submits' # submits /\ user = NoUser) =>
        /\ navigations' = Append(navigations, AuthRoute)
        /\ calls' = calls
        /\ UNCHANGED <<courseIsLoading, error, generationInBackground,
                       generationStartTime, courseToasts>>

\* C16: without a signed-in user handleSubmit redirects to /auth, makes no
\* generateCourse call and leaves isLoading, error, generationInBackground and
\* generationStartTime as they are; every generateCourse call carries the id of the
\* user signed in when it was made.
AuthGate == []AuthGateState /\ [][AuthGateStep]_vars

\* a submit after signing out, while the call of an earlier submit is still pending
AuthGateWitness ==
    /\ user = NoUser
    /\ Len(navigations) > 0
    /\ navigations[Len(navigations)] = AuthRoute
    /\ courseIsLoading
    /\ Len(calls) = 1
    /\ submits = 2

(***************************************************************************)
(* CSECourseForm: the subject buttons, the custom topic field, the option  *)
(* buttons and handleSubmit. Texts are sequences of characters; onSubmit   *)
(* is the prop the form calls.                                             *)
(***************************************************************************)
\* submits of the form per behaviour
MaxFormSubmits == 2

\* two of the eight subjects of lines 17-26: "Operating Systems", "Computer Graphics"
cseSubjects ==
    { <<"O","p","e","r","a","t","i","n","g"," ","S","y","s","t","e","m","s">>,
      <<"C","o","m","p","u","t","e","r"," ","G","r","a","p","h","i","c","s">> }

\* two of the four purposes of lines 28-33
purposeOptions == {"exam_preparation", "job_interview"}

\* two of the three difficulties of lines 35-39
difficultyOptions == {"intermediate", "advanced"}

nonCSEKeywords ==
    { <<"b","i","o","l","o","g","y">>,
      <<"c","h","e","m","i","s","t","r","y">>,
      <<"p","h","y","s","i","c","s">>,
      <<"h","i","s","t","o","r","y">>,
      <<"g","e","o","g","r","a","p","h","y">>,
      <<"l","i","t","e","r","a","t","u","r","e">>,
      <<"a","r","t","s">>,
      <<"m","u","s","i","c">>,
      <<"m","e","d","i","c","a","l">>,
      <<"c","i","v","i","l">>,
      <<"m","e","c","h","a","n","i","c","a","l">>,
      <<"e","l","e","c","t","r","i","c","a","l">> }

\* what the user can put in the custom topic field: "", " ", "Go", "Charts", "MUSIC"
CustomTopics ==
    { <<>>, <<" ">>, <<"G","o">>, <<"C","h","a","r","t","s">>, <<"M","U","S","I","C">> }

\* what the user can put in the custom prompt field: "", "brief"
CustomPrompts == { <<>>, <<"b","r","i","e","f">> }

\* a faulty variant of isNonCSE: the keywords are looked up without toLowerCase()
isNonCSECaseSensitive(value) ==
    \E keyword \in nonCSEKeywords : includes(value, keyword)

\* lines 61-64: nonCSEKeywords.some(keyword => value.toLowerCase().includes(keyword))
isNonCSE(value) ==
    \E keyword \in nonCSEKeywords : includes(toLowerCase(value), keyword)

\* lines 50-54
handleSubjectSelect(subject) ==
    /\ selectedSubject' = subject
    /\ customTopic' = <<>>
    /\ showNonCSEWarning' = FALSE
    /\ UNCHANGED <<purpose, difficulty, customPrompt, includeExamPrep,
                   formSubmits, onSubmitCalls, onSubmitLast, notForm>>

\* lines 56-66
handleCustomTopicChange(value) ==
    /\ customTopic' = value
    /\ selectedSubject' = <<>>
    /\ showNonCSEWarning' = isNonCSE(value)
    /\ UNCHANGED <<purpose, difficulty, customPrompt, includeExamPrep,
                   formSubmits, onSubmitCalls, onSubmitLast, notForm>>

\* line 149: onClick={() => setPurpose(option.value)}
setPurpose(value) ==
    /\ purpose' = value
    /\ UNCHANGED <<selectedSubject, customTopic, difficulty, customPrompt,
                   includeExamPrep, showNonCSEWarning, formSubmits, onSubmitCalls,
                   onSubmitLast, notForm>>

\* line 168: onClick={() => setDifficulty(option.value)}
setDifficulty(value) ==
    /\ difficulty' = value
    /\ UNCHANGED <<selectedSubject, customTopic, purpose, customPrompt,
                   includeExamPrep, showNonCSEWarning, formSubmits, onSubmitCalls,
                   onSubmitLast, notForm>>

\* line 183: onChange={(e) => setIncludeExamPrep(e.target.checked)}
setIncludeExamPrep(checked) ==
    /\ includeExamPrep' = checked
    /\ UNCHANGED <<selectedSubject, customTopic, purpose, difficulty, customPrompt,
                   showNonCSEWarning, formSubmits, onSubmitCalls, onSubmitLast,
                   notForm>>

\* line 200: onChange={(e) => setCustomPrompt(e.target.value)}
setCustomPrompt(value) ==
    /\ customPrompt' = value
    /\ UNCHANGED <<selectedSubject, customTopic, purpose, difficulty,
                   includeExamPrep, showNonCSEWarning, formSubmits, onSubmitCalls,
                   onSubmitLast, notForm>>

\* line 70: selectedSubject || customTopic
courseNameOf(subject, topic) == IF subject # <<>> THEN subject ELSE topic

\* line 78: the arguments of onSubmit
onSubmitArgs(courseName) ==
    [courseName |-> courseName, purpose |-> purpose, difficulty |-> difficulty,
     customPrompt |-> customPrompt, includeExamPrep |-> includeExamPrep]

\* lines 68-79
handleSubmit ==
    /\ formSubmits < MaxFormSubmits
    /\ formSubmits' = formSubmits + 1
    /\ LET courseName == courseNameOf(selectedSubject, customTopic)
       IN  IF trim(courseName) = <<>>
           THEN UNCHANGED <<onSubmitCalls, onSubmitLast>>
           ELSE IF showNonCSEWarning
           THEN UNCHANGED <<onSubmitCalls, onSubmitLast>>
           ELSE /\ onSubmitCalls' = onSubmitCalls + 1
                /\ onSubmitLast' = << onSubmitArgs(courseName) >>
    /\ UNCHANGED <<selectedSubject, customTopic, purpose, difficulty, customPrompt,
                   includeExamPrep, showNonCSEWarning, notForm>>

\* line 81
isFormValid ==
    (selectedSubject # <<>> \/ trim(customTopic) # <<>>) /\ ~showNonCSEWarning

FormNext ==
    \/ \E subject \in cseSubjects : handleSubjectSelect(subject)
    \/ \E value \in CustomTopics : handleCustomTopicChange(value)
    \/ \E value \in purposeOptions : setPurpose(value)
    \/ \E value \in difficultyOptions : setDifficulty(value)
    \/ \E checked \in BOOLEAN : setIncludeExamPrep(checked)
    \/ \E value \in CustomPrompts : setCustomPrompt(value)
    \/ handleSubmit

FormSpec == Init /\ [][FormNext]_vars

(***************************************************************************)
(* The submit guard of CSECourseForm.                                      *)
(***************************************************************************)
\* the topic contains a non-CSE keyword, case ignored
hasNonCSEKeyword(topic) == \E kw \in nonCSEKeywords : occursIn(kw, topic)

\* the effective course name: the selected subject, else the custom topic
effectiveName == IF Len(selectedSubject) > 0 THEN selectedSubject ELSE customTopic

guardPasses == ~blank(effectiveName) /\ ~hasNonCSEKeyword(customTopic)

SubmitGuardState ==
    /\ Len(selectedSubject) = 0 \/ Len(customTopic) = 0
    /\ showNonCSEWarning = hasNonCSEKeyword(customTopic)
    /\ isFormValid = guardPasses
    /\ onSubmitCalls <= formSubmits
    /\ (onSubmitCalls = 0) = (onSubmitLast = <<>>)

\* a run of handleSubmit
SubmitGuardStep ==
    (formSubmits' # formSubmits) =>
        /\ IF guardPasses
           THEN /\ onSubmitCalls' = onSubmitCalls + 1
                /\ onSubmitLast' =
                      << [courseName |-> effectiveName, purpose |-> purpose,
                          difficulty |-> difficulty, customPrompt |-> customPrompt,
                          includeExamPrep |-> includeExamPrep] >>
           ELSE UNCHANGED <<onSubmitCalls, onSubmitLast>>
        /\ UNCHANGED <<selectedSubject, customTopic, purpose, difficulty,
                       customPrompt, includeExamPrep, showNonCSEWarning>>

\* C17: after any selections and edits handleSubmit calls onSubmit exactly when the
\* effective course name is not blank and the custom topic contains no non-CSE
\* keyword (case ignored), passing the current name, purpose, difficulty, prompt and
\* exam flag; subject and custom topic are never both set, the warning flag equals
\* "the custom topic contains a non-CSE keyword", and isFormValid agrees with the guard.
SubmitGuard == []SubmitGuardState /\ [][SubmitGuardStep]_vars

\* one submit passed on with changed options, then a submit refused for the keyword
\* of an upper-case topic
SubmitGuardWitness ==
    /\ formSubmits = 2
    /\ onSubmitCalls = 1
    /\ onSubmitLast[1].purpose = "job_interview"
    /\ onSubmitLast[1].includeExamPrep = FALSE
    /\ Len(onSubmitLast[1].courseName) > 2
    /\ customTopic = <<"M","U","S","I","C">>
    /\ showNonCSEWarning

=============================================================================
